---------------------------- MODULE Spec2Model ----------------------------
(***************************************************************************)
(* A model of the ip-intel agent (src/src/index.ts): the IP validator, the *)
(* upstream client fetchIPData, the six entrypoint handlers and the        *)
(* promise machinery (Promise.all) the bulk handler joins its tasks with.  *)
(*                                                                         *)
(* Strings the validator reads are sequences of one-character strings, so  *)
(* that the two regular expressions can be evaluated character by          *)
(* character.                                                              *)
(***************************************************************************)
EXTENDS Integers, Sequences, FiniteSets, TLC

VARIABLES
    req,        \* the request being served: [key, ips, paid], or NoReq
    pc,         \* "idle" | "running" | "returned" | "failed"
    calls,      \* the upstream calls issued for this request, in issue order
    values,     \* Promise.all's values array (bulk): slot -> outcome or Pending
    remaining,  \* Promise.all's count of unresolved elements
    output,     \* the handler's returned output object, or None
    error,      \* the message of the error the handler raised, or None
    overtaken,  \* history: a call completed while one issued before it was still out
    candidate,  \* validator harness: the string handed to isValidIP
    verdict     \* validator harness: "unchecked", or isValidIP's result

vars == <<req, pc, calls, values, remaining, output, error, overtaken, candidate, verdict>>

-----------------------------------------------------------------------------
(* Bounds of the model. *)

\* Longest bulk input the model enumerates (the schema allows up to MaxBulk).
MaxIps == 3
\* The validator harness enumerates every string up to this length ...
MaxStrLen == 4
\* ... and every '.'-joined list of up to this many parts ...
MaxDotParts == 5
\* ... and every ':'-joined list of up to this many parts.
MaxColonParts == 9

(* Program constants. *)
MinBulk == 1
MaxBulk == 10

-----------------------------------------------------------------------------
(* Regular expressions, evaluated as a backtracking matcher explores them: *)
(* for a set P of positions of s a match may have reached, After...(s, P)   *)
(* is the set of positions it may reach by matching one more piece.  A     *)
(* pattern anchored with ^ and $ matches when position Len(s) + 1 can be   *)
(* reached from position 1.                                                *)

\* One character of a class.
After(s, P, class) == {i + 1 : i \in {k \in P : k <= Len(s) /\ s[k] \in class}}

\* ^ ... $
Anchored(s, P) == (Len(s) + 1) \in P

Digits == {"0", "1", "2", "3", "4", "5", "6", "7", "8", "9"}
HexDigits == Digits \cup {"a", "b", "c", "d", "e", "f", "A", "B", "C", "D", "E", "F"}

\* (?:25[0-5]|2[0-4][0-9]|[01]?[0-9][0-9]?)
AfterOctet(s, P) ==
    LET two == After(s, P, {"2"})
        first == After(s, After(s, P, {"0", "1"}) \cup P, Digits)
    IN  After(s, After(s, two, {"5"}), {"0", "1", "2", "3", "4", "5"})
            \cup After(s, After(s, two, {"0", "1", "2", "3", "4"}), Digits)
            \cup first \cup After(s, first, Digits)

\* (?:octet\.){k}
RECURSIVE AfterOctetDots(_, _, _)
AfterOctetDots(s, P, k) ==
    IF k = 0 THEN P
    ELSE After(s, AfterOctet(s, AfterOctetDots(s, P, k - 1)), {"."})

\* ^(?:octet\.){3}octet$
ipv4Regex(s) == Anchored(s, AfterOctet(s, AfterOctetDots(s, {1}, 3)))

\* [0-9a-fA-F]{1,4}
AfterHextet(s, P) ==
    LET h1 == After(s, P, HexDigits)
        h2 == After(s, h1, HexDigits)
        h3 == After(s, h2, HexDigits)
        h4 == After(s, h3, HexDigits)
    IN  h1 \cup h2 \cup h3 \cup h4

AfterColon(s, P) == After(s, P, {":"})

\* (?:[0-9a-fA-F]{1,4}:){k}
RECURSIVE AfterHextetColons(_, _, _)
AfterHextetColons(s, P, k) ==
    IF k = 0 THEN P
    ELSE AfterColon(s, AfterHextet(s, AfterHextetColons(s, P, k - 1)))

\* (?:[0-9a-fA-F]{1,4}:){m,n}
AfterHextetColonsBetween(s, P, m, n) == UNION {AfterHextetColons(s, P, k) : k \in m..n}

\* The four alternatives of ipv6Regex, each anchored on both sides.
\* ^(?:[0-9a-fA-F]{1,4}:){7}[0-9a-fA-F]{1,4}$
ipv6Full(s) == Anchored(s, AfterHextet(s, AfterHextetColons(s, {1}, 7)))

\* ^::(?:[0-9a-fA-F]{1,4}:){0,6}[0-9a-fA-F]{1,4}$
ipv6Leading(s) ==
    Anchored(s, AfterHextet(s,
        AfterHextetColonsBetween(s, AfterColon(s, AfterColon(s, {1})), 0, 6)))

\* ^(?:[0-9a-fA-F]{1,4}:){1,7}:$
ipv6Trailing(s) == Anchored(s, AfterColon(s, AfterHextetColonsBetween(s, {1}, 1, 7)))

\* ^(?:[0-9a-fA-F]{1,4}:){0,6}::(?:[0-9a-fA-F]{1,4}:){0,5}[0-9a-fA-F]{1,4}$
ipv6Middle(s) ==
    Anchored(s, AfterHextet(s,
        AfterHextetColonsBetween(s,
            AfterColon(s, AfterColon(s, AfterHextetColonsBetween(s, {1}, 0, 6))), 0, 5)))

ipv6Regex(s) == ipv6Full(s) \/ ipv6Leading(s) \/ ipv6Trailing(s) \/ ipv6Middle(s)

isValidIP(ip) == ipv4Regex(ip) \/ ipv6Regex(ip)


-----------------------------------------------------------------------------
(* Values. *)

Str8888 == <<"8", ".", "8", ".", "8", ".", "8">>
Str1111 == <<"1", ".", "1", ".", "1", ".", "1">>
Str256 == <<"2", "5", "6", ".", "1", ".", "1", ".", "1">>
StrNotAnIp == <<"n", "o", "t", "-", "a", "n", "-", "i", "p">>
StrLoopback6 == <<":", ":", "1">>

\* The IP strings requests are drawn from.
BulkPool == {Str8888, Str1111, StrNotAnIp}
SinglePool == {Str8888, Str256, StrNotAnIp, StrLoopback6}

None == [tag |-> "none"]
Pending == [tag |-> "pending"]
NoRequest == [key |-> "none", ips |-> <<>>, paid |-> FALSE]

\* JavaScript's undefined, for the optional fields argument.
Undefined == "<undefined>"

SingleKeys == {"lookup", "geolocate", "timezone", "isp-info"}

\* price: { amount: ... } of each entrypoint.
Price(key) ==
    CASE key = "overview" -> 0
      [] key = "lookup" -> 1000
      [] key = "bulk" -> 3000
      [] key = "geolocate" -> 2000
      [] key = "timezone" -> 1000
      [] key = "isp-info" -> 2000

defaultFields ==
    "status,message,country,countryCode,region,regionName,city,zip,lat,lon,timezone,isp,org,as,query"
timezoneFields == "status,message,query,timezone,countryCode,city"
ispFields == "status,message,query,isp,org,as,asname,mobile,proxy,hosting"

\* The fields argument each single-IP handler passes to fetchIPData.
FieldsArg(key) ==
    CASE key = "timezone" -> timezoneFields
      [] key = "isp-info" -> ispFields
      [] OTHER -> Undefined

-----------------------------------------------------------------------------
(* The upstream provider: what a call can be answered with. *)

StatusCodes == {200, 500}

\* How `await fetch(url)` settles: a network error, or a response with a status.
FetchSettlements == {[tag |-> "neterr"]} \cup {[tag |-> "http", status |-> c] : c \in StatusCodes}

JsonNull == [null |-> TRUE]

TimeZones == {"America/Los_Angeles", "Australia/Sydney"}

City(ip) == IF ip = Str8888 THEN "Mountain View" ELSE "Sydney"

\* A success record of the provider for ip.
SuccessRecord(ip, tz, flags) ==
    [status |-> "success", query |-> ip, country |-> "Country", countryCode |-> "CC",
     region |-> "R", regionName |-> "Region", city |-> City(ip), zip |-> "0000",
     lat |-> 37, lon |-> 0 - 122, timezone |-> tz, isp |-> "ISP", org |-> "Org",
     as |-> "AS15169", asname |-> "NAME"] @@ flags

FailRecords ==
    {[status |-> "fail", message |-> "reserved range"],
     [status |-> "fail", message |-> ""],
     [status |-> "fail"]}

\* The success records enumerated for a call: they vary in the fields the calling
\* handler reads (the time zone name for timezone, the flags for isp-info).
SuccessRecords(key, ip) ==
    CASE key = "timezone" ->
            {SuccessRecord(ip, tz, <<>>) : tz \in {"America/Los_Angeles", "Mars/Olympus"}}
      [] key = "isp-info" ->
            {SuccessRecord(ip, "America/Los_Angeles", fl) :
                fl \in {<<>>, [mobile |-> TRUE, proxy |-> FALSE, hosting |-> TRUE]}}
      [] OTHER -> {SuccessRecord(ip, "America/Los_Angeles", <<>>)}

\* How `await response.json()` settles: a syntax error, or a decoded value.  The
\* calls of a bulk request are enumerated over fewer decoded values than the
\* single calls of the other handlers, which run the same fetchIPData.
JsonSettlements(key, ip) ==
    {[tag |-> "malformed"]}
        \cup {[tag |-> "json", data |-> d] :
                d \in (IF key = "bulk"
                       THEN {r \in FailRecords : "message" \notin DOMAIN r \/ r.message # ""}
                       ELSE {JsonNull} \cup FailRecords)
                          \cup SuccessRecords(key, ip)}

-----------------------------------------------------------------------------
(* fetchIPData. *)

Throw(m) == [kind |-> "throw", message |-> m]
Return(d) == [kind |-> "return", data |-> d]
Await == [kind |-> "await"]

NetworkErrorMessage == [text |-> "fetch failed"]
SyntaxErrorMessage == [text |-> "Unexpected token in JSON"]
TypeErrorMessage == [text |-> "Cannot read properties of null (reading 'status')"]
RangeErrorMessage == [text |-> "Invalid time zone specified"]
\* `API error: ${response.status}`
ApiErrorMessage(status) == [text |-> "API error: ", status |-> status]

\* `http://ip-api.com/json/${ip}?fields=${fields || defaultFields}`
Url(ip, fields) ==
    [base |-> "http://ip-api.com/json/", ip |-> ip,
     fields |-> IF fields \in {Undefined, ""} THEN defaultFields ELSE fields]

\* response.ok
ResponseOk(status) == status \in 200..299

\* data.message || 'Invalid IP address'
\* Faulty variant: the provider's message is dropped.
FailMessageGeneric(data) == [text |-> "Invalid IP address"]

FailMessage(data) ==
    IF "message" \in DOMAIN data /\ data.message # ""
    THEN [text |-> data.message]
    ELSE [text |-> "Invalid IP address"]

\* fetchIPData up to `await response.json()`: what it does once fetch has settled.
AfterFetch(h) ==
    IF h.tag = "neterr" THEN Throw(NetworkErrorMessage)
    ELSE IF ~ResponseOk(h.status) THEN Throw(ApiErrorMessage(h.status))
    ELSE Await

\* fetchIPData from `await response.json()` on.
AfterJson(b) ==
    IF b.tag = "malformed" THEN Throw(SyntaxErrorMessage)
    ELSE IF b.data = JsonNull THEN Throw(TypeErrorMessage)
    ELSE IF "status" \in DOMAIN b.data /\ b.data.status = "fail" THEN Throw(FailMessage(b.data))
    ELSE Return(b.data)

\* A call as fetchIPData issues it: one fetch(url), now awaited.
NewCall(slot, ip, fields) ==
    [slot |-> slot, url |-> Url(ip, fields), phase |-> "fetching",
     fetched |-> None, body |-> None, result |-> None]

\* The calls of a request after call c's fetchIPData has thrown or returned
\* (res): the call is over, and nothing is issued in its place.
\* Faulty variant: a call that threw is issued once more.
CallsAfterSettleRetrying(cs, c, res) ==
    IF res.kind = "throw"
    THEN [cs EXCEPT ![c].phase = "done", ![c].result = res]
            \o <<[cs[c] EXCEPT !.phase = "done", !.result = res]>>
    ELSE [cs EXCEPT ![c].phase = "done", ![c].result = res]

\* Each call keeps what fetchIPData did with it (result).
CallsAfterSettle(cs, c, res) == [cs EXCEPT ![c].phase = "done", ![c].result = res]


-----------------------------------------------------------------------------
(* The handlers' output objects. *)

\* new Date().toISOString()
FetchedAt == "now"

\* now.toLocaleString('en-US', { timeZone }): a RangeError for an unknown zone.
LocaleStringThrows(tz) == tz \notin TimeZones
LocaleString(tz) == [localTimeIn |-> tz]

\* data.mobile || false
FlagOrFalse(data, f) == IF f \in DOMAIN data THEN data[f] ELSE FALSE

EndpointCatalog ==
    [lookup |-> "Single IP lookup - $0.001",
     bulk |-> "Bulk IP lookup (up to 10) - $0.003",
     geolocate |-> "Detailed geolocation - $0.002",
     timezone |-> "Timezone info - $0.001",
     ispinfo |-> "ISP/Organization details - $0.002"]

OverviewOutput(sample) ==
    [service |-> "IP Intelligence Agent",
     description |-> "Real-time IP geolocation, ISP info, and timezone data",
     dataSource |-> "ip-api.com (live)",
     sampleLookup |-> [ip |-> sample.query, country |-> sample.country,
                       city |-> sample.city, isp |-> sample.isp],
     endpoints |-> EndpointCatalog,
     fetchedAt |-> FetchedAt]

LookupOutput(data) ==
    [ip |-> data.query, country |-> data.country, countryCode |-> data.countryCode,
     region |-> data.regionName, city |-> data.city, zip |-> data.zip,
     coordinates |-> [lat |-> data.lat, lon |-> data.lon],
     timezone |-> data.timezone, isp |-> data.isp, organization |-> data.org,
     asn |-> data.as, fetchedAt |-> FetchedAt]

GeolocateOutput(data) ==
    [ip |-> data.query,
     location |-> [country |-> data.country, countryCode |-> data.countryCode,
                   region |-> data.region, regionName |-> data.regionName,
                   city |-> data.city, postalCode |-> data.zip],
     coordinates |-> [latitude |-> data.lat, longitude |-> data.lon,
                      mapsUrl |-> [base |-> "https://www.google.com/maps?q=",
                                   lat |-> data.lat, lon |-> data.lon]],
     timezone |-> data.timezone, fetchedAt |-> FetchedAt]

TimezoneOutput(data) ==
    [ip |-> data.query, timezone |-> data.timezone, country |-> data.countryCode,
     city |-> data.city, currentLocalTime |-> LocaleString(data.timezone),
     fetchedAt |-> FetchedAt]

IspInfoOutput(data) ==
    [ip |-> data.query, isp |-> data.isp, organization |-> data.org, asn |-> data.as,
     asName |-> data.asname,
     flags |-> [mobile |-> FlagOrFalse(data, "mobile"),
                proxy |-> FlagOrFalse(data, "proxy"),
                hosting |-> FlagOrFalse(data, "hosting")],
     fetchedAt |-> FetchedAt]

\* The success payload of one bulk entry.
BulkPayload(data) ==
    [ip |-> data.query, country |-> data.country, countryCode |-> data.countryCode,
     city |-> data.city, isp |-> data.isp,
     coordinates |-> [lat |-> data.lat, lon |-> data.lon]]

BulkOutput(results) ==
    [count |-> Len(results), results |-> results, fetchedAt |-> FetchedAt]

\* A handler's code after `const data = await fetchIPData(...)` has returned data:
\* it returns an output object, or (timezone) toLocaleString throws.
HandlerBody(key, data) ==
    CASE key = "overview" -> [kind |-> "return", output |-> OverviewOutput(data)]
      [] key = "lookup" -> [kind |-> "return", output |-> LookupOutput(data)]
      [] key = "geolocate" -> [kind |-> "return", output |-> GeolocateOutput(data)]
      [] key = "timezone" ->
            IF LocaleStringThrows(data.timezone)
            THEN Throw(RangeErrorMessage)
            ELSE [kind |-> "return", output |-> TimezoneOutput(data)]
      [] key = "isp-info" -> [kind |-> "return", output |-> IspInfoOutput(data)]

\* How a handler other than bulk ends once its fetchIPData call has settled with
\* res: nothing catches a throw, so the error reaches the caller and no output
\* object is returned.
\* Faulty variant: the handler catches the error and returns it as its output.
HandlerEndSwallows(key, res) ==
    IF res.kind = "throw"
    THEN [pc |-> "returned", output |-> [error |-> res.message], error |-> None]
    ELSE LET r == HandlerBody(key, res.data) IN
         IF r.kind = "throw"
         THEN [pc |-> "failed", output |-> None, error |-> r.message]
         ELSE [pc |-> "returned", output |-> r.output, error |-> None]

HandlerEnd(key, res) ==
    IF res.kind = "throw"
    THEN [pc |-> "failed", output |-> None, error |-> res.message]
    ELSE LET r == HandlerBody(key, res.data) IN
         IF r.kind = "throw"
         THEN [pc |-> "failed", output |-> None, error |-> r.message]
         ELSE [pc |-> "returned", output |-> r.output, error |-> None]

\* if (!isValidIP(ctx.input.ip)) throw ...: the guard of the single-IP handlers.
\* Faulty variant: the handler forgets to validate.
RejectsNoInput(ip) == FALSE

RejectsInput(ip) == ~isValidIP(ip)

\* if (!isValidIP(ip)) return { ip, error }: the guard of a bulk entry.
\* Faulty variant: the bulk entry forgets to validate.
RejectsNoEntry(ip) == FALSE

RejectsEntry(ip) == ~isValidIP(ip)

InvalidFormatMessage == [text |-> "Invalid IP address format"]
InvalidEntryMessage == [text |-> "Invalid IP format"]

\* The value one bulk entry's task resolves with once its fetchIPData call has
\* settled with res: the try/catch turns a throw into an error record.
\* Faulty variant: the catch clause reports a fixed message instead of err.message.
BulkEntryFixedMessage(ip, res) ==
    IF res.kind = "throw"
    THEN [ip |-> ip, error |-> [text |-> "Lookup failed"]]
    ELSE BulkPayload(res.data)

BulkEntry(ip, res) ==
    IF res.kind = "throw"
    THEN [ip |-> ip, error |-> res.message]
    ELSE BulkPayload(res.data)

\* The address the overview handler looks up.
\* Faulty variant: another sample address.
OverviewTargetOther == Str1111

OverviewTarget == Str8888

-----------------------------------------------------------------------------
(* Promise.all over the mapped tasks. *)

\* The index of the values array an element's resolution is stored at: the
\* element's own index in the iterable.
\* Faulty variant: results stored in completion order: the first free index.
ResolveIndexByCompletion(vals, slot) ==
    CHOOSE i \in DOMAIN vals : vals[i] = Pending /\ \A j \in 1..(i - 1) : vals[j] # Pending

ResolveIndex(vals, slot) == slot

\* Promise.all resolves once no element is unresolved.
\* Faulty variant: Promise.race in place of Promise.all: the first settlement resolves it.
FirstResolved(rem) == TRUE

AllResolved(rem) == rem = 0

\* The synchronous part of ips.map(async ip => ...): entry i either resolves at
\* once with an error record or issues its call, in input order.
RECURSIVE BulkCalls(_, _)
BulkCalls(ips, i) ==
    IF i > Len(ips) THEN <<>>
    ELSE (IF RejectsEntry(ips[i]) THEN <<>> ELSE <<NewCall(i, ips[i], Undefined)>>)
            \o BulkCalls(ips, i + 1)

BulkInitialValues(ips) ==
    [i \in 1..Len(ips) |->
        IF RejectsEntry(ips[i]) THEN [ip |-> ips[i], error |-> InvalidEntryMessage]
        ELSE Pending]

Unresolved(vals) == Cardinality({i \in DOMAIN vals : vals[i] = Pending})


-----------------------------------------------------------------------------
(* The request state machine. *)

SchemaErrorMessage == [text |-> "Invalid input"]

\* The bulk inputs enumerated: the empty list, which the schema rejects, and every
\* list of 1..MaxIps strings of the pool.
BulkInputs == UNION {[1..n -> BulkPool] : n \in 0..MaxIps}

Init ==
    /\ req = NoRequest
    /\ pc = "idle"
    /\ calls = <<>>
    /\ values = <<>>
    /\ remaining = 0
    /\ output = None
    /\ error = None
    /\ overtaken = FALSE
    /\ candidate = <<>>
    /\ verdict = "unchecked"

\* overview: no input, no validation, one lookup of the fixed address.
InvokeOverview(paid) ==
    /\ pc = "idle"
    /\ req' = [key |-> "overview", ips |-> <<>>, paid |-> paid]
    /\ calls' = <<NewCall(1, OverviewTarget, Undefined)>>
    /\ pc' = "running"
    /\ UNCHANGED <<values, remaining, output, error, overtaken, candidate, verdict>>

\* lookup, geolocate, timezone, isp-info: validate, then one lookup.
InvokeSingle(key, ip, paid) ==
    /\ pc = "idle"
    /\ req' = [key |-> key, ips |-> <<ip>>, paid |-> paid]
    /\ IF RejectsInput(ip)
       THEN /\ pc' = "failed"
            /\ error' = InvalidFormatMessage
            /\ calls' = <<>>
       ELSE /\ pc' = "running"
            /\ error' = None
            /\ calls' = <<NewCall(1, ip, FieldsArg(key))>>
    /\ UNCHANGED <<values, remaining, output, overtaken, candidate, verdict>>

\* bulk: the schema admits 1..10 strings; the handler maps every entry to a task
\* and joins the tasks with Promise.all.  Entries that fail validation resolve
\* before any response can arrive; with no valid entry the handler returns at once.
InvokeBulk(ips, paid) ==
    /\ pc = "idle"
    /\ req' = [key |-> "bulk", ips |-> ips, paid |-> paid]
    /\ IF Len(ips) \notin MinBulk..MaxBulk
       THEN /\ pc' = "failed"
            /\ error' = SchemaErrorMessage
            /\ UNCHANGED <<calls, values, remaining, output>>
       ELSE LET vals == BulkInitialValues(ips)
                rem == Unresolved(vals)
            IN  /\ calls' = BulkCalls(ips, 1)
                /\ values' = vals
                /\ remaining' = rem
                /\ error' = None
                /\ IF AllResolved(rem)
                   THEN pc' = "returned" /\ output' = BulkOutput(vals)
                   ELSE pc' = "running" /\ output' = None
    /\ UNCHANGED <<overtaken, candidate, verdict>>

\* Call c's fetchIPData has thrown or returned (res); cs are the calls with the
\* response recorded.  The awaiting task runs on: a bulk entry resolves its
\* element of Promise.all, and the handler returns once all are resolved; any
\* other handler ends.
Settle(c, res, cs) ==
    /\ calls' = CallsAfterSettle(cs, c, res)
    /\ overtaken' = (overtaken \/ \E d \in 1..(c - 1) : cs[d].phase # "done")
    /\ IF req.key = "bulk"
       THEN LET slot == cs[c].slot
                vals == [values EXCEPT ![ResolveIndex(values, slot)] =
                                            BulkEntry(req.ips[slot], res)]
                rem == remaining - 1
            IN  /\ values' = vals
                /\ remaining' = rem
                /\ IF AllResolved(rem)
                   THEN pc' = "returned" /\ output' = BulkOutput(vals)
                   ELSE UNCHANGED <<pc, output>>
                /\ UNCHANGED error
       ELSE LET e == HandlerEnd(req.key, res)
            IN  /\ pc' = e.pc
                /\ output' = e.output
                /\ error' = e.error
                /\ UNCHANGED <<values, remaining>>

\* `await fetch(url)` of call c settles with h.
FetchSettles(c, h) ==
    /\ pc = "running"
    /\ c \in 1..Len(calls)
    /\ calls[c].phase = "fetching"
    /\ LET res == AfterFetch(h)
           cs == [calls EXCEPT ![c].fetched = h]
       IN  IF res.kind = "await"
           THEN /\ calls' = [cs EXCEPT ![c].phase = "reading"]
                /\ UNCHANGED <<pc, values, remaining, output, error, overtaken>>
           ELSE Settle(c, res, cs)
    /\ UNCHANGED <<req, candidate, verdict>>

\* `await response.json()` of call c settles with b.
JsonSettles(c, b) ==
    /\ pc = "running"
    /\ c \in 1..Len(calls)
    /\ calls[c].phase = "reading"
    /\ Settle(c, AfterJson(b), [calls EXCEPT ![c].body = b])
    /\ UNCHANGED <<req, candidate, verdict>>

\* The request is over; the next one starts from a clean slate (nothing is kept
\* between requests).
Finish ==
    /\ pc \in {"returned", "failed"}
    /\ req' = NoRequest
    /\ pc' = "idle"
    /\ calls' = <<>>
    /\ values' = <<>>
    /\ remaining' = 0
    /\ output' = None
    /\ error' = None
    /\ overtaken' = FALSE
    /\ UNCHANGED <<candidate, verdict>>

\* The billing states a request to an entrypoint arrives in: the payments extension
\* lets a request through to a priced entrypoint's handler once it is paid for, and
\* to a free one either way.  No handler reads the billing state.
BillingStates(key) == IF Price(key) = 0 THEN BOOLEAN ELSE {TRUE}

Invoke ==
    \/ \E paid \in BillingStates("overview") : InvokeOverview(paid)
    \/ \E key \in SingleKeys, ip \in SinglePool :
          \E paid \in BillingStates(key) : InvokeSingle(key, ip, paid)
    \/ \E ips \in BulkInputs, paid \in BillingStates("bulk") : InvokeBulk(ips, paid)

UpstreamResponds ==
    \/ \E c \in 1..Len(calls), h \in FetchSettlements : FetchSettles(c, h)
    \/ \E c \in 1..Len(calls) :
          \E b \in JsonSettlements(req.key, calls[c].url.ip) : JsonSettles(c, b)

Next == Invoke \/ UpstreamResponds \/ Finish

Spec == Init /\ [][Next]_vars

\* Every dispatched upstream call eventually completes.
FairSpec == Spec /\ WF_vars(UpstreamResponds)

-----------------------------------------------------------------------------
(* The validator applied to candidate strings. *)

Alphabet == {"0", "2", "5", "6", "a", ".", ":"}

DotParts == {<<>>, <<"0">>, <<"2", "5">>, <<"2", "5", "5">>, <<"2", "5", "6">>, <<"a">>}
ColonParts == {<<>>, <<"1">>, <<"a", "b", "c", "d", "e">>}

RECURSIVE Join(_, _)
Join(parts, sep) ==
    IF Len(parts) = 0 THEN <<>>
    ELSE IF Len(parts) = 1 THEN parts[1]
    ELSE parts[1] \o <<sep>> \o Join(Tail(parts), sep)

\* Every string of up to len characters, every '.'-joined list of up to dots parts
\* and every ':'-joined list of up to colons parts.
Candidates(len, dots, colons) ==
    UNION {[1..n -> Alphabet] : n \in 0..len}
        \cup UNION {{Join(ps, ".") : ps \in [1..n -> DotParts]} : n \in 1..dots}
        \cup UNION {{Join(ps, ":") : ps \in [1..n -> ColonParts]} : n \in 1..colons}

InitValidator ==
    /\ req = NoRequest
    /\ pc = "idle"
    /\ calls = <<>>
    /\ values = <<>>
    /\ remaining = 0
    /\ output = None
    /\ error = None
    /\ overtaken = FALSE
    /\ candidate \in Candidates(MaxStrLen, MaxDotParts, MaxColonParts)
    /\ verdict = "unchecked"

Validate ==
    /\ verdict = "unchecked"
    /\ verdict' = IF isValidIP(candidate) THEN "valid" ELSE "invalid"
    /\ UNCHANGED <<req, pc, calls, values, remaining, output, error, overtaken, candidate>>

NextValidator == Validate

ValidatorSpec == InitValidator /\ [][NextValidator]_vars


-----------------------------------------------------------------------------
(* Vocabulary of the properties, stated on the recorded responses. *)

\* The request strings that pass isValidIP, evaluated once.
ValidInputs == {ip \in BulkPool \cup SinglePool \cup {OverviewTarget} : isValidIP(ip)}
PassesValidation(ip) == ip \in ValidInputs

IsBulk == req.key = "bulk" /\ Len(req.ips) \in 1..10
IsSingle == req.key \in {"lookup", "geolocate", "timezone", "isp-info"}

CallIds == 1..Len(calls)
CallsOfSlot(i) == {c \in CallIds : calls[c].slot = i}
IsDone(c) == calls[c].phase = "done"
Outstanding(c) == calls[c].phase \in {"fetching", "reading"}

\* The response to call c as the provider gave it.
NetworkFailed(c) == calls[c].fetched = [tag |-> "neterr"]
HttpStatusOf(c) == calls[c].fetched.status
HttpAnswered(c) == calls[c].fetched # None /\ ~NetworkFailed(c)
HttpSuccess(c) == HttpAnswered(c) /\ HttpStatusOf(c) >= 200 /\ HttpStatusOf(c) <= 299
BodyRead(c) == calls[c].body # None
BodyMalformed(c) == calls[c].body = [tag |-> "malformed"]
BodyDecoded(c) == BodyRead(c) /\ ~BodyMalformed(c)
PayloadOf(c) == calls[c].body.data
PayloadNull(c) == BodyDecoded(c) /\ PayloadOf(c) = [null |-> TRUE]
PayloadFail(c) ==
    BodyDecoded(c) /\ "status" \in DOMAIN PayloadOf(c) /\ PayloadOf(c).status = "fail"
HasMessage(c) == "message" \in DOMAIN PayloadOf(c)

\* The lookup of call c failed, for one of the reasons an upstream lookup can.
LookupFailed(c) ==
    \/ NetworkFailed(c)
    \/ HttpAnswered(c) /\ ~HttpSuccess(c)
    \/ BodyMalformed(c)
    \/ PayloadNull(c)
    \/ PayloadFail(c)

LookupSucceeded(c) == IsDone(c) /\ ~LookupFailed(c)

\* The message of the failure of call c.
FailureMessageOf(c) ==
    IF NetworkFailed(c) THEN [text |-> "fetch failed"]
    ELSE IF ~HttpSuccess(c) THEN [text |-> "API error: ", status |-> HttpStatusOf(c)]
    ELSE IF BodyMalformed(c) THEN [text |-> "Unexpected token in JSON"]
    ELSE IF PayloadNull(c) THEN [text |-> "Cannot read properties of null (reading 'status')"]
    ELSE IF HasMessage(c) /\ PayloadOf(c).message # "" THEN [text |-> PayloadOf(c).message]
    ELSE [text |-> "Invalid IP address"]

PayloadFields == {"ip", "country", "countryCode", "city", "isp", "coordinates"}
IsSuccessPayload(v) == DOMAIN v = PayloadFields
IsErrorRecord(v) == DOMAIN v = {"ip", "error"}

\* The success payload the provider record d shapes into.
PayloadFrom(d) ==
    [ip |-> d.query, country |-> d.country, countryCode |-> d.countryCode,
     city |-> d.city, isp |-> d.isp, coordinates |-> [lat |-> d.lat, lon |-> d.lon]]

\* The outcome computed for the input IP at position i, once it is known.
OutcomeKnown(i) == CallsOfSlot(i) = {} \/ \E c \in CallsOfSlot(i) : IsDone(c)
OutcomeFor(i) ==
    IF CallsOfSlot(i) = {}
    THEN [ip |-> req.ips[i], error |-> [text |-> "Invalid IP format"]]
    ELSE LET c == CHOOSE c \in CallsOfSlot(i) : IsDone(c) IN
         IF LookupFailed(c)
         THEN [ip |-> req.ips[i], error |-> FailureMessageOf(c)]
         ELSE PayloadFrom(PayloadOf(c))

-----------------------------------------------------------------------------
(* C1: a bulk request with n inputs (1 <= n <= 10) returns a results list of  *)
(* length exactly n whose entry i is the outcome computed for the input IP at *)
(* position i, whatever the order in which the upstream calls complete; while *)
(* the request runs, every outcome already known sits at its input position.  *)
C1_BulkResultsInInputOrder ==
    IsBulk =>
        /\ DOMAIN values = 1..Len(req.ips)
        /\ \A i \in 1..Len(req.ips) : OutcomeKnown(i) => values[i] = OutcomeFor(i)
        /\ pc = "returned" =>
              /\ Len(output.results) = Len(req.ips)
              /\ output.count = Len(req.ips)
              /\ \A i \in 1..Len(req.ips) : output.results[i] = OutcomeFor(i)

\* A returned bulk request whose calls completed against the input order: the
\* call of a later position completed first, and the two outcomes differ.
C1_Witness ==
    /\ IsBulk /\ pc = "returned"
    /\ \E c, d \in CallIds :
          /\ calls[c].slot < calls[d].slot
          /\ overtaken
          /\ output.results[calls[c].slot] # output.results[calls[d].slot]


-----------------------------------------------------------------------------
(* C2: the bulk handler never fails the request because of an item.  When    *)
(* the lookup of the IP at position i fails (non-2xx status, provider status *)
(* 'fail', or any other thrown error) the outcome at i is the error record   *)
(* {ip: the input IP at i, error: the failure's message}; every position     *)
(* whose own lookup succeeded holds a success payload; each slot of the      *)
(* returned list is exactly one of success payload or error record.          *)
C2_BulkCapturesItemFailures ==
    IsBulk =>
        /\ pc # "failed" /\ error = [tag |-> "none"]
        /\ \A c \in CallIds :
              IsDone(c) =>
                  LET i == calls[c].slot IN
                  IF LookupFailed(c)
                  THEN values[i] = [ip |-> req.ips[i], error |-> FailureMessageOf(c)]
                  ELSE IsSuccessPayload(values[i]) /\ values[i] = PayloadFrom(PayloadOf(c))
        /\ pc = "returned" =>
              \A i \in 1..Len(req.ips) :
                  IsSuccessPayload(output.results[i]) # IsErrorRecord(output.results[i])

\* A returned bulk request in which one lookup failed and another succeeded.
C2_Witness ==
    /\ IsBulk /\ pc = "returned"
    /\ \E c, d \in CallIds :
          /\ LookupFailed(c) /\ IsErrorRecord(output.results[calls[c].slot])
          /\ LookupSucceeded(d) /\ IsSuccessPayload(output.results[calls[d].slot])

-----------------------------------------------------------------------------
\* bulk(["8.8.8.8", "not-an-ip", "1.1.1.1"])
C3_Scenario == <<Str8888, StrNotAnIp, Str1111>>

(* C3: in a bulk request every position i whose input string fails isValidIP *)
(* holds exactly {ip: that string, error: "Invalid IP format"} and no         *)
(* upstream call is ever issued for it; bulk(["8.8.8.8", "not-an-ip",         *)
(* "1.1.1.1"]) with a healthy provider returns an error record at index 1 and *)
(* success payloads at indexes 0 and 2.                                       *)
C3_InvalidEntriesGetNoCall ==
    IsBulk =>
        /\ \A i \in 1..Len(req.ips) :
              ~PassesValidation(req.ips[i]) =>
                  /\ values[i] = [ip |-> req.ips[i], error |-> [text |-> "Invalid IP format"]]
                  /\ CallsOfSlot(i) = {}
        /\ \A c \in CallIds : PassesValidation(calls[c].url.ip)
        /\ (req.ips = C3_Scenario /\ pc = "returned" /\ \A c \in CallIds : LookupSucceeded(c)) =>
              /\ output.results[2] = [ip |-> StrNotAnIp, error |-> [text |-> "Invalid IP format"]]
              /\ IsSuccessPayload(output.results[1]) /\ output.results[1].ip = Str8888
              /\ IsSuccessPayload(output.results[3]) /\ output.results[3].ip = Str1111

\* The scenario, returned by a healthy provider.
C3_Witness ==
    /\ IsBulk /\ pc = "returned"
    /\ req.ips = C3_Scenario
    /\ Len(calls) = 2
    /\ \A c \in CallIds : LookupSucceeded(c)
    /\ IsErrorRecord(output.results[2])

-----------------------------------------------------------------------------
\* Some response to call c arrives.
RespondsTo(c) ==
    \/ \E h \in FetchSettlements : FetchSettles(c, h)
    \/ \E b \in JsonSettlements(req.key, calls[c].url.ip) : JsonSettles(c, b)

\* No return while a call is outstanding, and every outstanding call can complete.
C4_NoEarlyReturn ==
    IsBulk =>
        /\ pc = "returned" => \A c \in CallIds : IsDone(c)
        /\ pc = "running" => \E c \in CallIds : Outstanding(c)
        /\ \A c \in CallIds : Outstanding(c) => pc = "running" /\ ENABLED RespondsTo(c)

\* A step of a running bulk request changes at most one call.
C4_SiblingsUntouched ==
    (IsBulk /\ pc = "running") =>
        /\ Len(calls') = Len(calls)
        /\ \A c \in CallIds :
              calls'[c] # calls[c] => \A d \in CallIds \ {c} : calls'[d] = calls[d]

(* C4: the bulk handler returns only after every per-IP operation of the     *)
(* request has completed: in no state has the response been returned while a *)
(* call of the request is outstanding; the completion of one call, failed or *)
(* not, leaves every sibling call as it was and able to complete; and if     *)
(* every dispatched call eventually completes, the response is eventually    *)
(* returned.                                                                 *)
C4_BulkJoinsAllCalls ==
    /\ []C4_NoEarlyReturn
    /\ [][C4_SiblingsUntouched]_vars
    /\ ((IsBulk /\ pc = "running") ~> (IsBulk /\ pc = "returned"))

\* A returned bulk request of three calls, one failed and the others successful.
C4_Witness ==
    /\ IsBulk /\ pc = "returned"
    /\ Len(calls) = 3
    /\ \E c \in CallIds : LookupFailed(c)
    /\ \E c \in CallIds : LookupSucceeded(c)

-----------------------------------------------------------------------------
(* C5: for lookup, geolocate, timezone and isp-info, an input that fails     *)
(* isValidIP fails the request with a validation error and no upstream call  *)
(* is made; every call these entrypoints issue targets the request's IP,     *)
(* which passed isValidIP.                                                   *)
C5_SingleValidatesBeforeCall ==
    IsSingle =>
        /\ \A c \in CallIds : calls[c].url.ip = req.ips[1] /\ PassesValidation(calls[c].url.ip)
        /\ ~PassesValidation(req.ips[1]) =>
              /\ pc = "failed"
              /\ error = [text |-> "Invalid IP address format"]
              /\ output = [tag |-> "none"]
              /\ calls = <<>>

\* lookup({ip: "256.1.1.1"}) has failed, with no call made.
C5_Witness ==
    /\ req.key = "lookup" /\ req.ips = <<Str256>>
    /\ pc = "failed" /\ calls = <<>>

-----------------------------------------------------------------------------
(* C6: for lookup, geolocate, timezone and isp-info any error (validation,   *)
(* non-success HTTP status, provider-reported failure, or an unexpected      *)
(* upstream error such as malformed JSON) fails the whole request: the error *)
(* is raised to the caller and no output object is returned; the same        *)
(* upstream failure inside bulk is captured as a per-item error record.      *)
C6_SingleFailsWhole ==
    /\ IsSingle =>
          /\ ~PassesValidation(req.ips[1]) => pc = "failed"
          /\ \A c \in CallIds :
                (IsDone(c) /\ LookupFailed(c)) =>
                    pc = "failed" /\ error = FailureMessageOf(c)
          /\ pc = "failed" => output = [tag |-> "none"] /\ error # [tag |-> "none"]
          /\ pc = "returned" => output # [tag |-> "none"] /\ error = [tag |-> "none"]
          /\ pc = "running" => output = [tag |-> "none"]
    /\ IsBulk =>
          \A c \in CallIds :
              (IsDone(c) /\ LookupFailed(c)) =>
                  /\ pc # "failed"
                  /\ values[calls[c].slot].error = FailureMessageOf(c)

\* A lookup request failed by a malformed JSON body.
C6_Witness ==
    /\ req.key = "lookup" /\ pc = "failed"
    /\ Len(calls) = 1 /\ BodyMalformed(1)
    /\ error = [text |-> "Unexpected token in JSON"]


-----------------------------------------------------------------------------
(* Well-formed addresses, for C7: the reference the validator is held to.    *)

RECURSIVE SplitOn(_, _)
\* The parts of s between the occurrences of sep (one part more than separators).
SplitOn(s, sep) ==
    IF \A k \in 1..Len(s) : s[k] # sep THEN <<s>>
    ELSE LET k == CHOOSE k \in 1..Len(s) : s[k] = sep /\ \A j \in 1..(k - 1) : s[j] # sep
         IN  <<SubSeq(s, 1, k - 1)>> \o SplitOn(SubSeq(s, k + 1, Len(s)), sep)

DigitValue(ch) ==
    CASE ch = "0" -> 0 [] ch = "1" -> 1 [] ch = "2" -> 2 [] ch = "3" -> 3 [] ch = "4" -> 4
      [] ch = "5" -> 5 [] ch = "6" -> 6 [] ch = "7" -> 7 [] ch = "8" -> 8 [] ch = "9" -> 9

RECURSIVE DecimalValue(_)
DecimalValue(p) ==
    IF Len(p) = 0 THEN 0
    ELSE 10 * DecimalValue(SubSeq(p, 1, Len(p) - 1)) + DigitValue(p[Len(p)])

\* A decimal octet: one to three decimal digits with a value in 0..255.
IsOctet(p) ==
    /\ Len(p) \in 1..3
    /\ \A k \in 1..Len(p) : p[k] \in {"0", "1", "2", "3", "4", "5", "6", "7", "8", "9"}
    /\ DecimalValue(p) <= 255

WellFormedIPv4(s) ==
    LET ps == SplitOn(s, ".") IN Len(ps) = 4 /\ \A k \in 1..4 : IsOctet(ps[k])

\* A group: one to four hexadecimal digits.
IsGroup(p) ==
    /\ Len(p) \in 1..4
    /\ \A k \in 1..Len(p) :
          p[k] \in {"0", "1", "2", "3", "4", "5", "6", "7", "8", "9",
                    "a", "b", "c", "d", "e", "f", "A", "B", "C", "D", "E", "F"}

\* The number of groups of a ':'-separated list of groups (none for the empty
\* string), or -1 when s is no such list.
GroupCount(s) ==
    IF Len(s) = 0 THEN 0
    ELSE LET ps == SplitOn(s, ":") IN
         IF \A k \in 1..Len(ps) : IsGroup(ps[k]) THEN Len(ps) ELSE 0 - 1

DoubleColons(s) == {k \in 1..(Len(s) - 1) : s[k] = ":" /\ s[k + 1] = ":"}

\* Eight groups, or a single '::' at the start, in the middle or at the end
\* standing for the omitted groups, with at most eight groups in total.
WellFormedIPv6(s) ==
    IF DoubleColons(s) = {}
    THEN GroupCount(s) = 8
    ELSE /\ Cardinality(DoubleColons(s)) = 1
         /\ LET k == CHOOSE k \in DoubleColons(s) : TRUE
                left == GroupCount(SubSeq(s, 1, k - 1))
                right == GroupCount(SubSeq(s, k + 2, Len(s)))
            IN  left >= 0 /\ right >= 0 /\ left + right <= 7

WellFormedIP(s) == WellFormedIPv4(s) \/ WellFormedIPv6(s)

(* C7: isValidIP(s) is true if and only if s is a well-formed IPv4 dotted    *)
(* quad (four decimal octets, each in 0..255) or a well-formed IPv6 address  *)
(* in colon-hex form (eight groups of 1-4 hex digits, or a single '::'       *)
(* zero-compression at the start, middle or end, at most eight groups in     *)
(* total), and false for every other string.                                 *)
C7_ValidIffWellFormed ==
    verdict # "unchecked" => (verdict = "valid" <=> WellFormedIP(candidate))

-----------------------------------------------------------------------------
\* What fetchIPData did with call c.
Returned(c) == calls[c].result.kind = "return"
Threw(c) == calls[c].result.kind = "throw"

(* C8 as stated: fetchIPData returns the provider record if and only if the  *)
(* HTTP status is in the success range and the payload's status flag is not  *)
(* 'fail'; it fails when the status is not a success status, and when the    *)
(* payload's status is 'fail', with the provider's message when one is       *)
(* present and otherwise the generic message "Invalid IP address".           *)
C8_AsStated ==
    \A c \in CallIds :
        IsDone(c) =>
            /\ Returned(c) <=> (HttpSuccess(c) /\ ~PayloadFail(c))
            /\ Returned(c) => calls[c].result.data = PayloadOf(c)
            /\ (HttpAnswered(c) /\ ~HttpSuccess(c)) => Threw(c)
            /\ PayloadFail(c) =>
                  /\ Threw(c)
                  /\ calls[c].result.message =
                        IF HasMessage(c) THEN [text |-> PayloadOf(c).message]
                        ELSE [text |-> "Invalid IP address"]

(* C8, amended: fetchIPData returns the provider record if and only if the   *)
(* fetch yields a response whose status is in the success range, the body    *)
(* decodes as JSON to a value other than null, and the payload's status flag *)
(* is not 'fail'.  It fails when the status is not a success status          *)
(* ("API error: <status>"), and when the payload's status is 'fail', with    *)
(* the provider's message when one is present and not empty and otherwise    *)
(* the generic message "Invalid IP address".                                 *)
C8_FetchReturnsIffDecodedSuccess ==
    \A c \in CallIds :
        IsDone(c) =>
            /\ Returned(c) <=>
                  (HttpSuccess(c) /\ BodyDecoded(c) /\ ~PayloadNull(c) /\ ~PayloadFail(c))
            /\ Returned(c) # Threw(c)
            /\ Returned(c) => calls[c].result.data = PayloadOf(c)
            /\ (HttpAnswered(c) /\ ~HttpSuccess(c)) =>
                  /\ Threw(c)
                  /\ calls[c].result.message =
                        [text |-> "API error: ", status |-> HttpStatusOf(c)]
            /\ PayloadFail(c) =>
                  /\ Threw(c)
                  /\ calls[c].result.message =
                        IF HasMessage(c) /\ PayloadOf(c).message # ""
                        THEN [text |-> PayloadOf(c).message]
                        ELSE [text |-> "Invalid IP address"]

\* A call the provider failed with a message of its own, which the error carries.
C8_Witness ==
    \E c \in CallIds :
        /\ IsDone(c) /\ PayloadFail(c) /\ HasMessage(c)
        /\ calls[c].result = [kind |-> "throw", message |-> [text |-> "reserved range"]]

-----------------------------------------------------------------------------
(* C9: the overview entrypoint takes no input and looks up the fixed address *)
(* 8.8.8.8; the output it returns holds the sample lookup (ip, country,      *)
(* city, isp of the provider record, which is the record of 8.8.8.8) and a   *)
(* non-empty endpoint catalog; its price is 0, so it is served in either     *)
(* billing state.  It returns this output whenever its lookup succeeds.      *)
C9_OverviewSample ==
    /\ Price("overview") = 0
    /\ req.key = "overview" =>
          /\ req.ips = <<>>
          /\ Len(calls) = 1
          /\ calls[1].url.ip = <<"8", ".", "8", ".", "8", ".", "8">>
          /\ calls[1].url.fields = defaultFields
          /\ LookupSucceeded(1) <=> pc = "returned"
          /\ pc = "returned" =>
                /\ output.sampleLookup =
                      [ip |-> PayloadOf(1).query, country |-> PayloadOf(1).country,
                       city |-> PayloadOf(1).city, isp |-> PayloadOf(1).isp]
                /\ output.sampleLookup.ip = <<"8", ".", "8", ".", "8", ".", "8">>
                /\ DOMAIN output.endpoints # {}

\* overview has returned its sample to a caller who has not paid.
C9_Witness ==
    /\ req.key = "overview" /\ ~req.paid
    /\ pc = "returned"
    /\ output.sampleLookup.city = "Mountain View"

-----------------------------------------------------------------------------
(* C10: every invocation of the upstream client issues exactly one outbound  *)
(* call and none is retried: at every moment of a bulk request each position *)
(* whose string passes isValidIP has exactly one call, duplicates included   *)
(* and also once that call has failed, and the other positions none; each     *)
(* single-IP request with a valid IP has exactly one call.                    *)
C10_OneCallPerValidInput ==
    /\ IsBulk =>
          /\ \A i \in 1..Len(req.ips) :
                Cardinality(CallsOfSlot(i)) = IF PassesValidation(req.ips[i]) THEN 1 ELSE 0
          /\ Len(calls) = Cardinality({i \in 1..Len(req.ips) : PassesValidation(req.ips[i])})
          /\ \A c \in CallIds : calls[c].url.ip = req.ips[calls[c].slot]
    /\ IsSingle => Len(calls) = IF PassesValidation(req.ips[1]) THEN 1 ELSE 0
    /\ req.key = "overview" => Len(calls) = 1

\* A returned bulk request for the same IP twice: two calls, one of which failed.
C10_Witness ==
    /\ IsBulk /\ pc = "returned"
    /\ req.ips = <<Str8888, Str8888>>
    /\ Len(calls) = 2
    /\ LookupFailed(1) /\ LookupSucceeded(2)

=============================================================================
